---- MODULE Spec2Model ----
(***************************************************************************)
(* Model of scripts/import_price_history.py: one run of the script fetches *)
(* the asset universe, upserts one cryptocurrencies row per coin, imports  *)
(* candles for every entry of `symbols` and every timeframe, and commits.  *)
(* The script has no try/except: an exception raised anywhere ends the     *)
(* process, and the connection's uncommitted transaction is rolled back.   *)
(***************************************************************************)
EXTENDS Integers, Sequences, FiniteSets, TLC

(* ------------------------------ bounds --------------------------------- *)
\* longest universe list the ranking provider returns
MaxCoins == 2
\* longest candle list the candle provider returns in one call
MaxCandles == 1
\* number of runs of the script
MaxRuns == 2
\* number of candle calls, over all runs, that return candles
MaxDataCalls == 2

(* -------------------------- program constants -------------------------- *)
\* the dict `timeframes`, in insertion order; key and value are equal
timeframes == <<"1m", "5m", "15m", "1h", "4h", "1d">>
\* time.sleep(0.2), in milliseconds
RateDelayMs == 200

(* --------------------------- pure functions ---------------------------- *)
LowerLetters ==
  <<"a","b","c","d","e","f","g","h","i","j","k","l","m",
    "n","o","p","q","r","s","t","u","v","w","x","y","z">>
UpperLetters ==
  <<"A","B","C","D","E","F","G","H","I","J","K","L","M",
    "N","O","P","Q","R","S","T","U","V","W","X","Y","Z">>

\* str.upper() on one character
UpperChar(c) ==
  IF \E i \in 1..26 : LowerLetters[i] = c
    THEN UpperLetters[CHOOSE i \in 1..26 : LowerLetters[i] = c]
    ELSE c

\* str.upper(); strings that are computed on are sequences of characters
Upper(s) == [i \in 1..Len(s) |-> UpperChar(s[i])]

\* the symbol derived without str.upper()
BinanceSymbolAsIs(coin) == coin.symbol \o <<"U","S","D","T">>

\* coin['symbol'].upper() + 'USDT'
BinanceSymbol(coin) == Upper(coin.symbol) \o <<"U","S","D","T">>

\* coin['symbol'] succeeds: the item is an object that has the key
\* (a str item raises TypeError, a missing key raises KeyError)
HasKey(item, key) == key \in DOMAIN item

\* coin.get('image', '')
GetImage(coin) == IF "image" \in DOMAIN coin THEN coin.image ELSE ""

Digits == <<"0","1","2","3","4","5","6","7","8","9">>
IsDigit(c) == \E d \in 1..10 : Digits[d] = c
DigitVal(c) == (CHOOSE d \in 1..10 : Digits[d] = c) - 1

RECURSIVE ParseDigits(_)
ParseDigits(s) ==
  IF Len(s) = 0 THEN 0
  ELSE 10 * ParseDigits(SubSeq(s, 1, Len(s) - 1)) + DigitVal(s[Len(s)])

\* float(x) returns: x is a JSON number, or a string of decimal digits
\* (the inputs of the model hold whole numbers only)
CanFloat(x) ==
  \/ "num" \in DOMAIN x
  \/ /\ "str" \in DOMAIN x
     /\ Len(x.str) > 0
     /\ \A i \in 1..Len(x.str) : IsDigit(x.str[i])

\* float(x)
Float(x) == IF "num" \in DOMAIN x THEN x.num ELSE ParseDigits(x.str)

\* datetime.utcfromtimestamp(ms / 1000): seconds and microseconds
UtcFromMs(ms) == [sec |-> ms \div 1000, usec |-> (ms % 1000) * 1000]

\* lines 66-71: a raw candle can be normalized
CanNormalize(candle) ==
  /\ Len(candle) >= 6
  /\ \A i \in 2..6 : CanFloat(candle[i])

\* lines 66-78: the row inserted for one raw candle
CandleRow(symbol, tf_name, candle) ==
  [symbol      |-> symbol,
   timeframe   |-> tf_name,
   open_price  |-> Float(candle[2]),
   high_price  |-> Float(candle[3]),
   low_price   |-> Float(candle[4]),
   close_price |-> Float(candle[5]),
   volume      |-> Float(candle[6]),
   timestamp   |-> UtcFromMs(candle[1]),
   created_at  |-> UtcFromMs(candle[1])]

(* ------------------------------ storage -------------------------------- *)
\* the unique key of price_history
CandleKey(row) == <<row.symbol, row.timeframe, row.timestamp>>

\* a row with the same unique key is already in the table
Conflict(table, row) ==
  \E i \in 1..Len(table) : CandleKey(table[i]) = CandleKey(row)

\* the insert with the conflict decided on the whole row
InsertCandleWholeRow(table, row) ==
  IF \E i \in 1..Len(table) : table[i] = row THEN table ELSE Append(table, row)

\* the insert without its ON CONFLICT clause taking effect
InsertCandlePlain(table, row) == Append(table, row)

\* the insert as an upsert: ON CONFLICT ... DO UPDATE
InsertCandleUpdate(table, row) ==
  IF Conflict(table, row)
    THEN [i \in 1..Len(table) |->
            IF CandleKey(table[i]) = CandleKey(row) THEN row ELSE table[i]]
    ELSE Append(table, row)

\* INSERT INTO price_history ... ON CONFLICT DO NOTHING
InsertCandle(table, row) ==
  IF Conflict(table, row) THEN table ELSE Append(table, row)

\* the upsert with market_type among the updated columns
UpsertAssetAllColumns(table, symbol, name, image) ==
  IF symbol \in DOMAIN table
    THEN [table EXCEPT ![symbol] =
            [@ EXCEPT !.name = name, !.market_type = "Spot",
                      !.image_url = image, !.active = TRUE]]
    ELSE table @@ (symbol :> [name        |-> name,
                              market_type |-> "Spot",
                              image_url   |-> image,
                              active      |-> TRUE,
                              extra       |-> "default"])

\* the upsert as a synchronisation: the rows of other symbols are deactivated
UpsertAssetDeactivateOthers(table, symbol, name, image) ==
  LET others == [k \in DOMAIN table |-> [table[k] EXCEPT !.active = FALSE]] IN
  IF symbol \in DOMAIN table
    THEN [others EXCEPT ![symbol] =
            [@ EXCEPT !.name = name, !.image_url = image, !.active = TRUE]]
    ELSE others @@ (symbol :> [name        |-> name,
                               market_type |-> "Spot",
                               image_url   |-> image,
                               active      |-> TRUE,
                               extra       |-> "default"])

\* the upsert with a default that depends on the rows already stored
UpsertAssetRanked(table, symbol, name, image) ==
  IF symbol \in DOMAIN table
    THEN [table EXCEPT ![symbol] =
            [@ EXCEPT !.name = name, !.image_url = image, !.active = TRUE]]
    ELSE table @@ (symbol :> [name        |-> name,
                              market_type |-> "Spot",
                              image_url   |-> image,
                              active      |-> TRUE,
                              extra       |-> IF DOMAIN table = {}
                                                THEN "first" ELSE "default"])

\* INSERT INTO cryptocurrencies ... ON CONFLICT (symbol) DO UPDATE SET
\* name, image_url, active; `extra` stands for the columns the statement
\* does not name, which take their defaults on insert
UpsertAsset(table, symbol, name, image) ==
  IF symbol \in DOMAIN table
    THEN [table EXCEPT ![symbol] =
            [@ EXCEPT !.name = name, !.image_url = image, !.active = TRUE]]
    ELSE table @@ (symbol :> [name        |-> name,
                              market_type |-> "Spot",
                              image_url   |-> image,
                              active      |-> TRUE,
                              extra       |-> "default"])

\* lines 47-57 over a whole universe: the table after the upsert loop
RECURSIVE ReconcileAll(_, _)
ReconcileAll(table, cs) ==
  IF cs = <<>> THEN table
  ELSE ReconcileAll(UpsertAsset(table, BinanceSymbol(Head(cs)), Head(cs).name,
                                GetImage(Head(cs))),
                    Tail(cs))

\* fetch_binance_candles without the test of the status code
FetchResultAnyStatus(status_code, json) == json

\* fetch_binance_candles: the value returned for a response
FetchResult(status_code, json) == IF status_code = 200 THEN json ELSE <<>>

\* the pause taken only after a successful call
PauseMsOnSuccess(status_code, fetched_candles) ==
  IF status_code = 200 THEN RateDelayMs ELSE 0

\* time.sleep(0.2) after the candle loop of one pair
PauseMs(status_code, fetched_candles) == RateDelayMs

(* ------------------------------- inputs -------------------------------- *)
SeqsUpTo(S, n) == UNION {[1..k -> S] : k \in 0..n}

\* universe entries: one ticker that derives BTCUSDT, and two tickers that
\* derive XYZUSDT (the second comes without an image)
Btc    == [symbol |-> <<"b","t","c">>, name |-> "Bitcoin", image |-> "btc.png"]
Xyz    == [symbol |-> <<"x","y","z">>, name |-> "Xyz", image |-> "xyz.png"]
XyzAlt == [symbol |-> <<"X","y","z">>, name |-> "Xyz Cash"]
CoinSet == {Btc, Xyz, XyzAlt}

\* iterating an error object such as {"status": {...}} yields its keys
ErrorKeys == <<[jsonstr |-> "status"]>>

\* what resp.json() can return, and the statuses it can come with
UniverseJson == SeqsUpTo(CoinSet, MaxCoins) \cup {ErrorKeys}
UniverseStatus == {200, 429}

Str(s) == [str |-> s]
Num(n) == [num |-> n]

\* raw candles: cA and cB open at the same time with different values,
\* cC opens later, cBad has a price that float() rejects
cA   == <<60000, Str(<<"1","0","0">>), Str(<<"1","1","0">>), Str(<<"9","0">>),
          Str(<<"1","0","5">>), Str(<<"5","0">>)>>
cB   == <<60000, Num(101), Num(111), Num(91), Num(106), Num(51)>>
cC   == <<3660500, Str(<<"1","0","5">>), Str(<<"1","0","8">>), Str(<<"9","5">>),
          Str(<<"1","0","6">>), Str(<<"4","0">>)>>
cBad == <<60000, Str(<<"a","b","c">>), Str(<<"1","1","0">>), Str(<<"9","0">>),
          Str(<<"1","0","5">>), Str(<<"5","0">>)>>
RawCandles == {cA, cB, cC, cBad}

\* what r.json() can return, and the statuses it can come with
CandleJson == SeqsUpTo(RawCandles, MaxCandles)
CandleStatus == {200, 429}

BTCUSDT == <<"B","T","C","U","S","D","T">>

\* the pairs the candle provider has history for; XYZUSDT is not traded
Market == {<<BTCUSDT, "1h">>}

\* rows written to the store before the first run, by other writers
OldAssets ==
  BTCUSDT :> [name        |-> "Old Bitcoin",
              market_type |-> "Futures",
              image_url   |-> "old.png",
              active      |-> FALSE,
              extra       |-> "external"]
OldCandles ==
  <<[symbol      |-> BTCUSDT,
     timeframe   |-> "1h",
     open_price  |-> 1,
     high_price  |-> 2,
     low_price   |-> 1,
     close_price |-> 2,
     volume      |-> 3,
     timestamp   |-> UtcFromMs(60000),
     created_at  |-> UtcFromMs(99000)]>>
InitialStores ==
  {[assets |-> <<>>, candles |-> <<>>],
   [assets |-> OldAssets, candles |-> OldCandles]}

\* what one run was given: the universe response and the candle lists by
\* call number
NoScript == [universe |-> <<>>, data |-> <<>>]

(* ------------------------------- state --------------------------------- *)
VARIABLES
  pc,          \* position of the script
  runNo,       \* number of runs started
  resp,        \* status code of the universe response
  coins,       \* coins = resp.json()
  symbols,     \* the list `symbols`
  ci,          \* index of `coin` in the two loops over coins
  si,          \* index of `symbol` in the loop over symbols
  ti,          \* index of the timeframe
  candles,     \* candles = fetch_binance_candles(...)
  ki,          \* index of `candle` in candles
  txAssets,    \* cryptocurrencies as the open transaction sees it
  txCandles,   \* price_history as the open transaction sees it
  dbAssets,    \* committed cryptocurrencies
  dbCandles,   \* committed price_history
  startAssets, \* committed cryptocurrencies when the run started
  startCandles,\* committed price_history when the run started
  fetched,     \* (symbol, timeframe) of every candle call of the run
  lastStatus,  \* status code of the last candle call that returned
  paused,      \* the pause was taken since the last candle call
  elapsed,     \* milliseconds slept in the run
  failure,     \* the exception that ended the run
  dataCalls,   \* candle calls so far that returned candles
  replay,      \* the run is given what the previous run was given
  prev,        \* what the previous run was given
  script       \* what this run has been given so far

vars == <<pc, runNo, resp, coins, symbols, ci, si, ti, candles, ki,
          txAssets, txCandles, dbAssets, dbCandles, startAssets, startCandles,
          fetched, lastStatus, paused, elapsed, failure, dataCalls,
          replay, prev, script>>

locals == <<resp, coins, symbols, ci, si, ti, candles, ki>>
store  == <<dbAssets, dbCandles, startAssets, startCandles>>
inputs == <<runNo, replay, prev>>

Init ==
  /\ pc = "idle"
  /\ runNo = 0
  /\ resp = 0
  /\ coins = <<>>
  /\ symbols = <<>>
  /\ ci = 1
  /\ si = 1
  /\ ti = 1
  /\ candles = <<>>
  /\ ki = 1
  /\ \E s \in InitialStores :
       /\ dbAssets = s.assets
       /\ dbCandles = s.candles
       /\ txAssets = s.assets
       /\ txCandles = s.candles
       /\ startAssets = s.assets
       /\ startCandles = s.candles
  /\ fetched = <<>>
  /\ lastStatus = 0
  /\ paused = TRUE
  /\ elapsed = 0
  /\ failure = "none"
  /\ dataCalls = 0
  /\ replay = FALSE
  /\ prev = NoScript
  /\ script = NoScript

(* ------------------------------ control -------------------------------- *)
\* the first loop over coins followed by the import, without the upsert loop
PcDeriveSkipReconcile(cs, i) ==
  IF i <= Len(cs) THEN "derive"
  ELSE IF Len(cs) > 0 THEN "fetch" ELSE "commit"

\* where the first loop over coins (lines 29-31) continues
PcDerive(cs, i) ==
  IF i <= Len(cs) THEN "derive"
  ELSE IF Len(cs) > 0 THEN "reconcile" ELSE "commit"

\* the upsert loop left for the import after its first iteration
PcReconcileInterleaved(cs, i, syms) ==
  IF Len(syms) > 0 THEN "fetch" ELSE "commit"

\* where the second loop over coins (lines 47-58) continues
PcReconcile(cs, i, syms) ==
  IF i <= Len(cs) THEN "reconcile"
  ELSE IF Len(syms) > 0 THEN "fetch" ELSE "commit"

\* where the loop over symbols and timeframes (lines 61-62) continues
PcImport(syms, s) == IF s <= Len(syms) THEN "fetch" ELSE "commit"

\* an uncaught exception: the process ends and the open transaction,
\* which was never committed, is rolled back
Raise(exc) ==
  /\ pc' = "aborted"
  /\ failure' = exc
  /\ txAssets' = dbAssets
  /\ txCandles' = dbCandles
  /\ UNCHANGED script

\* number of the candle call being made or handled
CallNo == IF pc = "fetch" THEN Len(fetched) + 1 ELSE Len(fetched)

(* ------------------------------ actions -------------------------------- *)
\* the script is started: lines 7-14 open the connection and the cursor
StartRun ==
  /\ pc \in {"idle", "done", "aborted"}
  /\ runNo < MaxRuns
  /\ runNo' = runNo + 1
  /\ pc' = "get"
  /\ \E again \in BOOLEAN :
       /\ again => pc = "done"
       /\ replay' = again
       /\ prev' = IF again THEN script ELSE NoScript
  /\ script' = NoScript
  /\ resp' = 0
  /\ coins' = <<>>
  /\ symbols' = <<>>
  /\ ci' = 1
  /\ si' = 1
  /\ ti' = 1
  /\ candles' = <<>>
  /\ ki' = 1
  /\ txAssets' = dbAssets
  /\ txCandles' = dbCandles
  /\ startAssets' = dbAssets
  /\ startCandles' = dbCandles
  /\ fetched' = <<>>
  /\ lastStatus' = 0
  /\ paused' = TRUE
  /\ elapsed' = 0
  /\ failure' = "none"
  /\ UNCHANGED <<dbAssets, dbCandles, dataCalls>>

\* lines 26-28: the universe response is read without a look at its status
FetchUniverse ==
  /\ pc = "get"
  /\ \E st \in UniverseStatus, js \in UniverseJson :
       /\ replay => prev.universe = <<st, js>>
       /\ resp' = st
       /\ coins' = js
       /\ script' = [script EXCEPT !.universe = <<st, js>>]
       /\ pc' = PcDerive(js, 1)
  /\ symbols' = <<>>
  /\ ci' = 1
  /\ UNCHANGED <<si, ti, candles, ki, txAssets, txCandles, store, fetched,
                 lastStatus, paused, elapsed, failure, dataCalls, inputs>>

\* line 26 or 27 raises: the provider is unreachable or the body is not JSON
FetchUniverseRaises ==
  /\ pc = "get"
  /\ Raise("SourceUnavailable")
  /\ UNCHANGED <<locals, store, fetched, lastStatus, paused, elapsed,
                 dataCalls, inputs>>

\* lines 29-31, one iteration
DeriveSymbol ==
  /\ pc = "derive"
  /\ HasKey(coins[ci], "symbol")
  /\ symbols' = Append(symbols, BinanceSymbol(coins[ci]))
  /\ ci' = IF ci + 1 <= Len(coins) THEN ci + 1 ELSE 1
  /\ pc' = PcDerive(coins, ci + 1)
  /\ UNCHANGED <<resp, coins, si, ti, candles, ki, txAssets, txCandles, store,
                 fetched, lastStatus, paused, elapsed, failure, dataCalls,
                 inputs, script>>

\* line 30 raises: the item is not an object with a 'symbol'
DeriveSymbolRaises ==
  /\ pc = "derive"
  /\ ~HasKey(coins[ci], "symbol")
  /\ Raise("UniverseItemError")
  /\ UNCHANGED <<locals, store, fetched, lastStatus, paused, elapsed,
                 dataCalls, inputs>>

\* lines 47-58, one iteration
Upsert ==
  /\ pc = "reconcile"
  /\ txAssets' = UpsertAsset(txAssets, BinanceSymbol(coins[ci]),
                             coins[ci].name, GetImage(coins[ci]))
  /\ symbols' = Append(symbols, BinanceSymbol(coins[ci]))
  /\ ci' = ci + 1
  /\ pc' = PcReconcile(coins, ci + 1, symbols')
  /\ UNCHANGED <<resp, coins, si, ti, candles, ki, txCandles, store, fetched,
                 lastStatus, paused, elapsed, failure, dataCalls, inputs,
                 script>>

\* cursor.execute of line 50 raises a database error
UpsertWriteFails ==
  /\ pc = "reconcile"
  /\ Raise("RegistryWriteFailure")
  /\ UNCHANGED <<locals, store, fetched, lastStatus, paused, elapsed,
                 dataCalls, inputs>>

\* line 64: one call of fetch_binance_candles that returns
FetchCandles ==
  /\ pc = "fetch"
  /\ \E st \in CandleStatus, js \in CandleJson :
       LET res == FetchResult(st, js) IN
       /\ IF replay
            THEN res = (IF CallNo \in DOMAIN prev.data
                          THEN prev.data[CallNo] ELSE <<>>)
            ELSE res # <<>> =>
                   /\ <<symbols[si], timeframes[ti]>> \in Market
                   /\ dataCalls < MaxDataCalls
       /\ candles' = res
       /\ lastStatus' = st
       /\ pc' = IF res = <<>> THEN "sleep" ELSE "insert"
       /\ dataCalls' = IF ~replay /\ res # <<>>
                         THEN dataCalls + 1 ELSE dataCalls
       /\ script' = IF res # <<>>
                      THEN [script EXCEPT !.data = @ @@ (CallNo :> res)]
                      ELSE script
  /\ ki' = 1
  /\ fetched' = Append(fetched, <<symbols[si], timeframes[ti]>>)
  /\ paused' = FALSE
  /\ UNCHANGED <<resp, coins, symbols, ci, si, ti, txAssets, txCandles, store,
                 elapsed, failure, inputs>>

\* line 41 or 43 raises: no connection, or a body that is not JSON
FetchCandlesRaises ==
  /\ pc = "fetch"
  /\ fetched' = Append(fetched, <<symbols[si], timeframes[ti]>>)
  /\ paused' = FALSE
  /\ Raise("CandleFetchError")
  /\ UNCHANGED <<locals, store, lastStatus, elapsed, dataCalls, inputs>>

\* one iteration of the candle loop on a connection in autocommit mode
InsertCandleStepAutocommit ==
  /\ pc = "insert"
  /\ CanNormalize(candles[ki])
  /\ txCandles' = InsertCandle(txCandles,
                     CandleRow(symbols[si], timeframes[ti], candles[ki]))
  /\ dbCandles' = txCandles'
  /\ dbAssets' = txAssets
  /\ ki' = ki + 1
  /\ pc' = IF ki + 1 <= Len(candles) THEN "insert" ELSE "sleep"
  /\ UNCHANGED <<resp, coins, symbols, ci, si, ti, candles, txAssets,
                 startAssets, startCandles, fetched, lastStatus, paused,
                 elapsed, failure, dataCalls, inputs, script>>

\* lines 65-79, one iteration
InsertCandleStep ==
  /\ pc = "insert"
  /\ CanNormalize(candles[ki])
  /\ txCandles' = InsertCandle(txCandles,
                     CandleRow(symbols[si], timeframes[ti], candles[ki]))
  /\ ki' = ki + 1
  /\ pc' = IF ki + 1 <= Len(candles) THEN "insert" ELSE "sleep"
  /\ UNCHANGED <<resp, coins, symbols, ci, si, ti, candles, txAssets, store,
                 fetched, lastStatus, paused, elapsed, failure, dataCalls,
                 inputs, script>>

\* lines 66-71 raise: the raw candle cannot be normalized
NormalizeRaises ==
  /\ pc = "insert"
  /\ ~CanNormalize(candles[ki])
  /\ Raise("NormalizeError")
  /\ UNCHANGED <<locals, store, fetched, lastStatus, paused, elapsed,
                 dataCalls, inputs>>

\* cursor.execute of line 72 raises a database error
InsertWriteFails ==
  /\ pc = "insert"
  /\ CanNormalize(candles[ki])
  /\ Raise("CandleWriteFailure")
  /\ UNCHANGED <<locals, store, fetched, lastStatus, paused, elapsed,
                 dataCalls, inputs>>

\* the pause followed by a second attempt of a pair whose call failed
SleepAndRetry ==
  /\ pc = "sleep"
  /\ elapsed' = elapsed + PauseMs(lastStatus, candles)
  /\ paused' = (PauseMs(lastStatus, candles) >= RateDelayMs)
  /\ ti' = IF lastStatus # 200 THEN ti
           ELSE IF ti < Len(timeframes) THEN ti + 1 ELSE 1
  /\ si' = IF lastStatus # 200 \/ ti < Len(timeframes) THEN si ELSE si + 1
  /\ pc' = PcImport(symbols, si')
  /\ UNCHANGED <<resp, coins, symbols, ci, candles, ki, txAssets, txCandles,
                 store, fetched, lastStatus, failure, dataCalls, inputs,
                 script>>

\* line 80, and the step of the two loops of lines 61-62
Sleep ==
  /\ pc = "sleep"
  /\ elapsed' = elapsed + PauseMs(lastStatus, candles)
  /\ paused' = (PauseMs(lastStatus, candles) >= RateDelayMs)
  /\ ti' = IF ti < Len(timeframes) THEN ti + 1 ELSE 1
  /\ si' = IF ti < Len(timeframes) THEN si ELSE si + 1
  /\ pc' = PcImport(symbols, si')
  /\ UNCHANGED <<resp, coins, symbols, ci, candles, ki, txAssets, txCandles,
                 store, fetched, lastStatus, failure, dataCalls, inputs,
                 script>>

\* line 82
Commit ==
  /\ pc = "commit"
  /\ dbAssets' = txAssets
  /\ dbCandles' = txCandles
  /\ pc' = "close"
  /\ UNCHANGED <<locals, txAssets, txCandles, startAssets, startCandles,
                 fetched, lastStatus, paused, elapsed, failure, dataCalls,
                 inputs, script>>

\* lines 83-85
Close ==
  /\ pc = "close"
  /\ pc' = "done"
  /\ UNCHANGED <<locals, txAssets, txCandles, store, fetched, lastStatus,
                 paused, elapsed, failure, dataCalls, inputs, script>>

Next ==
  \/ StartRun
  \/ FetchUniverse
  \/ FetchUniverseRaises
  \/ DeriveSymbol
  \/ DeriveSymbolRaises
  \/ Upsert
  \/ UpsertWriteFails
  \/ FetchCandles
  \/ FetchCandlesRaises
  \/ InsertCandleStep
  \/ NormalizeRaises
  \/ InsertWriteFails
  \/ Sleep
  \/ Commit
  \/ Close

Spec == Init /\ [][Next]_vars

\* the steps a started script takes when the call or the statement it is at
\* returns: the interpreter goes on to the next statement
Progress ==
  \/ FetchUniverse
  \/ DeriveSymbol
  \/ DeriveSymbolRaises
  \/ Upsert
  \/ FetchCandles
  \/ InsertCandleStep
  \/ NormalizeRaises
  \/ Sleep
  \/ Commit
  \/ Close

\* runs in which every external call and every statement comes back, with a
\* result or with an exception
FairSpec == Spec /\ WF_vars(Progress)

TypeOK ==
  /\ pc \in {"idle", "get", "derive", "reconcile", "fetch", "insert", "sleep",
             "commit", "close", "done", "aborted"}
  /\ runNo \in 0..MaxRuns
  /\ Len(fetched) <= 2 * MaxCoins * Len(timeframes)

(* ------------------------------ properties ----------------------------- *)
Unique(table) ==
  \A i, j \in 1..Len(table) :
    CandleKey(table[i]) = CandleKey(table[j]) => i = j

\* the row the candle loop has just handled or is about to handle
RowOf(k) == CandleRow(symbols[si], timeframes[ti], candles[k])

\* C1: in every state, during and after any number of runs, no two rows of
\* price_history (as committed, and as the open transaction sees it) share
\* the triple (symbol, timeframe, timestamp)
C1_CandleKeysUnique == Unique(dbCandles) /\ Unique(txCandles)

\* C1 witness: a candle whose key was already stored, with other values, has
\* gone through the insert and the table still holds one row for the key
C1_Witness ==
  /\ pc = "sleep"
  /\ candles # <<>>
  /\ \E i \in 1..Len(txCandles) :
       /\ CandleKey(txCandles[i]) = CandleKey(RowOf(Len(candles)))
       /\ txCandles[i] # RowOf(Len(candles))

\* C2: a run that is given the universe response and the candle lists of the
\* completed run before it leaves the committed store as that run left it
C2_RerunIdempotent ==
  (replay /\ pc \in {"close", "done", "aborted"}) =>
     /\ dbAssets = startAssets
     /\ dbCandles = startCandles

\* C2 witness: such a second run, with candles among its responses, has
\* committed and finished
C2_Witness ==
  /\ replay
  /\ pc = "done"
  /\ DOMAIN script.data # {}
  /\ DOMAIN dbAssets # {}

\* the derived symbols of the universe are pairwise distinct
DistinctSymbols ==
  \A i, j \in 1..Len(coins) :
    (i # j /\ HasKey(coins[i], "symbol") /\ HasKey(coins[j], "symbol"))
       => BinanceSymbol(coins[i]) # BinanceSymbol(coins[j])

\* C3: for a universe of N assets with distinct symbols no (symbol,
\* timeframe) pair is fetched twice in a run, and a finished run has made
\* exactly N x 6 candle calls
C3_OneCallPerPair ==
  DistinctSymbols =>
     /\ \A i, j \in 1..Len(fetched) : fetched[i] = fetched[j] => i = j
     /\ pc = "done" => Len(fetched) = Len(coins) * Len(timeframes)

\* C4: when the universe response has a non-success status the run never
\* enters the reconciliation or the import phase, and no row of either table
\* is written
C4_NonSuccessUniverseIsFatal ==
  resp \notin {0, 200} =>
     /\ pc \notin {"reconcile", "fetch", "insert", "sleep"}
     /\ txAssets = startAssets
     /\ txCandles = startCandles
     /\ dbAssets = startAssets
     /\ dbCandles = startCandles

\* the pair of the loop is the last one of the run
LastPair == si = Len(symbols) /\ ti = Len(timeframes)

\* C5: a candle call that returns with a non-success status or with an empty
\* list writes no candle row and goes on to the pause; the pause after it
\* writes nothing and goes on to the next pair or, after the last pair, to
\* the commit
C5_EmptyFetchContinues ==
  [][ /\ (/\ pc = "fetch"
          /\ pc' # "aborted"
          /\ (lastStatus' # 200 \/ candles' = <<>>))
         => /\ pc' = "sleep"
            /\ candles' = <<>>
            /\ UNCHANGED <<txCandles, dbCandles, si, ti>>
      /\ (pc = "sleep" /\ candles = <<>>)
         => /\ UNCHANGED <<txCandles, dbCandles>>
            /\ IF LastPair
                 THEN pc' = "commit"
                 ELSE /\ pc' = "fetch"
                      /\ <<si', ti'>> = IF ti < Len(timeframes)
                                          THEN <<si, ti + 1>>
                                          ELSE <<si + 1, 1>> ]_vars

\* C5 witness: a call after the first one came back with a non-success
\* status, nothing was returned, and pairs are left to import
C5_Witness ==
  /\ pc = "sleep"
  /\ lastStatus = 429
  /\ candles = <<>>
  /\ Len(fetched) >= 2
  /\ ~LastPair
  /\ txCandles = startCandles

\* C6: a run is never ended by a failure inside the import of one pair (the
\* candle call raising, a raw candle that cannot be normalized, a candle
\* write raising)
C6_PairFailureIsolated ==
  pc = "aborted" =>
     failure \notin {"CandleFetchError", "NormalizeError", "CandleWriteFailure"}

\* C7: a run is never ended by a failed upsert of one asset
C7_UpsertFailureNonFatal ==
  ~(pc = "aborted" /\ failure = "RegistryWriteFailure")

\* the symbol the reconciliation loop is at
CoinSymbol == BinanceSymbol(coins[ci])

\* C8: an upsert for a symbol that has a stored row sets that row's name,
\* image_url and active to the entry's name, the entry's image and true,
\* keeps its market_type and its other columns, and changes no other row
C8_UpsertUpdatesInPlace ==
  [][ (pc = "reconcile" /\ pc' # "aborted" /\ CoinSymbol \in DOMAIN txAssets)
        => /\ DOMAIN txAssets' = DOMAIN txAssets
           /\ txAssets'[CoinSymbol].name = coins[ci].name
           /\ txAssets'[CoinSymbol].image_url = GetImage(coins[ci])
           /\ txAssets'[CoinSymbol].active = TRUE
           /\ txAssets'[CoinSymbol].market_type = txAssets[CoinSymbol].market_type
           /\ txAssets'[CoinSymbol].extra = txAssets[CoinSymbol].extra
           /\ \A other \in DOMAIN txAssets \ {CoinSymbol} :
                txAssets'[other] = txAssets[other] ]_vars

\* C8 witness: the row of BTCUSDT that another writer stored as an inactive
\* "Futures" asset has been reconciled, next to a second row
C8_Witness ==
  /\ pc \in {"reconcile", "fetch"}
  /\ BTCUSDT \in DOMAIN txAssets
  /\ DOMAIN txAssets # {BTCUSDT}
  /\ txAssets[BTCUSDT].name = "Bitcoin"
  /\ txAssets[BTCUSDT].active
  /\ txAssets[BTCUSDT].market_type = "Futures"
  /\ txAssets[BTCUSDT].extra = "external"

\* every row of the first table whose key is in the second is the same row there
SameWhereKept(before, after) ==
  \A i \in 1..Len(before) : \A j \in 1..Len(after) :
    CandleKey(before[i]) = CandleKey(after[j]) => before[i] = after[j]

\* C9: no step changes a stored candle: a row whose key is still stored after
\* the step has the values it had before, and a committed row stays
C9_CandlesImmutable ==
  [][ /\ SameWhereKept(txCandles, txCandles')
      /\ SameWhereKept(dbCandles, dbCandles')
      /\ \A i \in 1..Len(dbCandles) :
           \E j \in 1..Len(dbCandles') : dbCandles'[j] = dbCandles[i] ]_vars

\* C9 witness: in a later run the provider returned other values for the key
\* of a candle that an earlier run imported, and the row is as it was
C9_Witness ==
  /\ runNo = 2
  /\ ~replay
  /\ pc = "sleep"
  /\ candles # <<>>
  /\ \E i \in 1..Len(startCandles) :
       /\ startCandles[i].created_at = startCandles[i].timestamp
       /\ CandleKey(startCandles[i]) = CandleKey(RowOf(Len(candles)))
       /\ startCandles[i] # RowOf(Len(candles))
       /\ \E j \in 1..Len(txCandles) : txCandles[j] = startCandles[i]

\* C10: every candle call but the first of a run starts after the pause that
\* follows the call before it, and the time slept in a run of N calls is at
\* least (N - 1) times the delay
C10_PauseBetweenCalls ==
  /\ pc = "fetch" => paused
  /\ Len(fetched) >= 1 => elapsed >= (Len(fetched) - 1) * RateDelayMs
  /\ pc \in {"commit", "close", "done"} => elapsed >= Len(fetched) * RateDelayMs

\* C10 witness: the next call is about to start after a call that came back
\* with a non-success status was followed by the pause
C10_Witness ==
  /\ pc = "fetch"
  /\ Len(fetched) >= 2
  /\ lastStatus = 429
  /\ paused
  /\ elapsed = Len(fetched) * RateDelayMs

\* the uppercased ticker followed by "USDT"
UpperTickerUSDT(coin) ==
  [i \in 1..Len(coin.symbol) |-> UpperChar(coin.symbol[i])] \o <<"U","S","D","T">>

\* the last universe entry that derives the symbol of entry i
LastEntryOf(i) ==
  CHOOSE j \in i..Len(coins) :
    /\ UpperTickerUSDT(coins[j]) = UpperTickerUSDT(coins[i])
    /\ \A m \in (j + 1)..Len(coins) :
         UpperTickerUSDT(coins[m]) # UpperTickerUSDT(coins[i])

\* (call, position) of every raw candle the candle provider returned in the run
Returned ==
  UNION {{<<n, k>> : k \in 1..Len(script.data[n])} : n \in DOMAIN script.data}

\* symbol, timeframe and open time of a returned raw candle
ReturnedKey(p) == <<fetched[p[1]][1], fetched[p[1]][2], script.data[p[1]][p[2]][1]>>

\* the returned raw candle is the first one the run was given with its key
FirstOfKey(p) ==
  \A q \in Returned :
    (q[1] < p[1] \/ (q[1] = p[1] /\ q[2] < p[2])) => ReturnedKey(q) # ReturnedKey(p)

\* the candle row the claim describes for a returned raw candle
ExpectedCandle(p) ==
  LET c  == script.data[p[1]][p[2]]
      at == [sec |-> c[1] \div 1000, usec |-> (c[1] % 1000) * 1000]
  IN [symbol      |-> fetched[p[1]][1],
      timeframe   |-> fetched[p[1]][2],
      open_price  |-> Float(c[2]),
      high_price  |-> Float(c[3]),
      low_price   |-> Float(c[4]),
      close_price |-> Float(c[5]),
      volume      |-> Float(c[6]),
      timestamp   |-> at,
      created_at  |-> at]

\* C11: after a run that completes on an empty store the asset table holds
\* exactly one row per distinct derived symbol (uppercased ticker + "USDT"),
\* with the name of the last entry that derives it, market_type "Spot" and
\* active = true, and the candle table holds exactly one row per distinct
\* (symbol, timeframe, open time) returned, with the open, high, low, close
\* and volume of the first raw candle returned for it and timestamp =
\* created_at = the open time; there are no other rows
C11_EndStateOnEmptyStore ==
  (pc = "done" /\ DOMAIN startAssets = {} /\ startCandles = <<>>) =>
     /\ DOMAIN dbAssets = {UpperTickerUSDT(coins[i]) : i \in 1..Len(coins)}
     /\ \A i \in 1..Len(coins) :
          LET row == dbAssets[UpperTickerUSDT(coins[i])] IN
          /\ row.name = coins[LastEntryOf(i)].name
          /\ row.market_type = "Spot"
          /\ row.active = TRUE
     /\ \A i, j \in 1..Len(dbCandles) :
          <<dbCandles[i].symbol, dbCandles[i].timeframe, dbCandles[i].timestamp>>
            = <<dbCandles[j].symbol, dbCandles[j].timeframe, dbCandles[j].timestamp>>
          => i = j
     /\ {dbCandles[i] : i \in 1..Len(dbCandles)}
          = {ExpectedCandle(p) : p \in {q \in Returned : FirstOfKey(q)}}

\* C11 witness: a run on an empty store has finished for a universe of two
\* entries that derive one symbol, and the provider returned two raw candles
\* with one key: one asset row and one candle row are stored
C11_Witness ==
  /\ pc = "done"
  /\ DOMAIN startAssets = {}
  /\ startCandles = <<>>
  /\ Len(coins) = 2
  /\ Cardinality(DOMAIN dbAssets) = 1
  /\ Cardinality(Returned) = 2
  /\ Len(dbCandles) = 1

\* every reordering of a sequence
Reorderings(seq) ==
  {[i \in 1..Len(seq) |-> seq[f[i]]] :
     f \in {g \in [1..Len(seq) -> 1..Len(seq)] :
              \A a, b \in 1..Len(seq) : g[a] = g[b] => a = b}}

\* the upsert loop of the run has just gone through the whole universe
Reconciled == pc \in {"fetch", "commit"} /\ fetched = <<>>

\* C12 (as stated): for every permutation of the universe, two entries with
\* one derived symbol included, reconciling the permutation from the store
\* the run started on gives the asset table the run has after its upsert loop
C12_OrderIrrelevant ==
  Reconciled =>
     \A q \in Reorderings(coins) : ReconcileAll(startAssets, q) = txAssets

\* C12 (amended): the order is irrelevant for a universe whose entries derive
\* pairwise distinct symbols; in every universe the row of a symbol holds the
\* name and the image of the last entry that derives it
C12_OrderIrrelevantWhenDistinct ==
  Reconciled =>
     /\ txAssets = ReconcileAll(startAssets, coins)
     /\ DistinctSymbols =>
          \A q \in Reorderings(coins) : ReconcileAll(startAssets, q) = txAssets
     /\ \A i \in 1..Len(coins) :
          /\ txAssets[BinanceSymbol(coins[i])].name = coins[LastEntryOf(i)].name
          /\ txAssets[BinanceSymbol(coins[i])].image_url
               = GetImage(coins[LastEntryOf(i)])

\* C12 witness: the upsert loop has gone through two entries with distinct
\* symbols, one updated in place and one inserted
C12_Witness ==
  /\ pc = "fetch"
  /\ Len(fetched) = 0
  /\ Len(coins) = 2
  /\ DistinctSymbols
  /\ DOMAIN startAssets = {BTCUSDT}
  /\ Cardinality(DOMAIN txAssets) = 2
  /\ coins[1] # coins[2]

\* the candle calls of a whole pass over `symbols` and the timeframes
AllPairsAttempted ==
  /\ Len(fetched) = Len(symbols) * Len(timeframes)
  /\ \A s \in 1..Len(symbols) : \A t \in 1..Len(timeframes) :
       fetched[(s - 1) * Len(timeframes) + t] = <<symbols[s], timeframes[t]>>
  /\ \A i \in 1..Len(coins) :
       \E s \in 1..Len(symbols) : symbols[s] = BinanceSymbol(coins[i])

\* C13: the phases of a run come in a fixed order. The universe is fetched
\* once, in the first step of the run and before any store write; every
\* universe asset has been upserted before the first candle call, and no
\* asset is written after it; the commit and the completion report come only
\* after every (symbol, timeframe) pair has been attempted
C13_PhaseOrder ==
  /\ [](/\ pc = "get" =>
             /\ script.universe = <<>>
             /\ txAssets = startAssets /\ txCandles = startCandles
             /\ dbAssets = startAssets /\ dbCandles = startCandles
        /\ pc \in {"derive", "reconcile", "fetch", "insert", "sleep",
                   "commit", "close", "done"} =>
             script.universe = <<resp, coins>>
        /\ pc \in {"get", "derive"} => fetched = <<>>
        /\ pc = "reconcile" =>
             /\ fetched = <<>>
             /\ \A i \in 1..(ci - 1) : BinanceSymbol(coins[i]) \in DOMAIN txAssets
        /\ Len(fetched) > 0 => ci = Len(coins) + 1
        /\ pc \in {"fetch", "insert", "sleep", "commit"} =>
             /\ ci = Len(coins) + 1
             /\ \A i \in 1..Len(coins) : BinanceSymbol(coins[i]) \in DOMAIN txAssets
        /\ pc \in {"commit", "close", "done"} => AllPairsAttempted)
  /\ [][ /\ pc' = "get" => pc \in {"idle", "done", "aborted"}
         /\ (resp' # resp \/ coins' # coins \/ script.universe' # script.universe)
              => (pc = "get" \/ pc' = "get")
         /\ (txAssets' # txAssets /\ pc' \notin {"aborted", "get"})
              => (pc = "reconcile" /\ fetched = <<>>)
         /\ (txCandles' # txCandles /\ pc' \notin {"aborted", "get"})
              => pc = "insert"
         /\ (dbAssets' # dbAssets \/ dbCandles' # dbCandles \/ pc' = "close")
              => (pc = "commit" /\ AllPairsAttempted)
         /\ pc' = "done" => pc = "close" ]_vars

\* C13 witness: a run over a universe of two assets has written assets and
\* candles, attempted its 24 list entries, committed and reported completion
C13_Witness ==
  /\ pc = "done"
  /\ Len(coins) = 2
  /\ DistinctSymbols
  /\ Len(fetched) = 4 * Len(timeframes)
  /\ dbAssets # startAssets
  /\ dbCandles # startCandles

\* every row of the first asset table is in the second, and active there if
\* it was active
AssetsKept(before, after) ==
  \A k \in DOMAIN before :
    /\ k \in DOMAIN after
    /\ before[k].active => after[k].active

\* C14: no step deletes or deactivates an asset. Every committed row stays
\* committed and, once active, stays active, over all runs and universes; in
\* a run every step but the rollback of an abort keeps the rows the
\* transaction sees; and every asset of the universe of a finished run is
\* stored active
C14_NeverDeactivatesOrDeletes ==
  /\ [](pc \in {"close", "done"} =>
          \A i \in 1..Len(coins) :
            /\ BinanceSymbol(coins[i]) \in DOMAIN dbAssets
            /\ dbAssets[BinanceSymbol(coins[i])].active)
  /\ [][ /\ AssetsKept(dbAssets, dbAssets')
         /\ pc' # "aborted" => AssetsKept(txAssets, txAssets') ]_vars

\* C14 witness: a second run has finished for a universe without an asset
\* that the first run stored, and the row of that asset is still active
C14_Witness ==
  /\ runNo = 2
  /\ pc = "done"
  /\ Len(coins) > 0
  /\ \E k \in DOMAIN startAssets :
       /\ startAssets[k].active
       /\ \A i \in 1..Len(coins) : BinanceSymbol(coins[i]) # k
       /\ k \in DOMAIN dbAssets
       /\ dbAssets[k].active

\* C15: the writes of a run become durable only at its commit. Until the
\* commit step the committed store is what it was when the run started, and
\* so it is after an abort at any point of the run; the commit step makes
\* exactly the tables of the transaction the committed ones
C15_DurableOnlyAtCommit ==
  /\ [](pc \notin {"close", "done"} =>
          /\ dbAssets = startAssets
          /\ dbCandles = startCandles)
  /\ [][ /\ pc # "commit" => UNCHANGED <<dbAssets, dbCandles>>
         /\ pc = "commit" => (dbAssets' = txAssets /\ dbCandles' = txCandles) ]_vars

\* C15 witness: a run that started on an empty store upserted its assets,
\* imported the candles of an earlier pair and then aborted in a later pair;
\* nothing of it is committed
C15_Witness ==
  /\ pc = "aborted"
  /\ failure \in {"CandleFetchError", "NormalizeError", "CandleWriteFailure"}
  /\ DOMAIN startAssets = {}
  /\ startCandles = <<>>
  /\ \E n \in DOMAIN script.data : n < Len(fetched)
  /\ DOMAIN dbAssets = {}
  /\ dbCandles = <<>>

\* the candle rows of a table that the run wrote
WrittenByRun(table) ==
  {table[i] : i \in 1..Len(table)} \ {startCandles[i] : i \in 1..Len(startCandles)}

\* C16: at every point of a run each candle row the run has written has the
\* symbol of a universe asset that the run upserted before, that asset's row
\* is in the asset table the candle is stored with, and the row's timeframe
\* is one of the six intervals; the same holds of the committed store after
\* the run
C16_CandleReferencesAsset ==
  /\ \A row \in WrittenByRun(txCandles) :
       /\ pc \notin {"get", "derive", "reconcile"}
       /\ \E i \in 1..(ci - 1) : BinanceSymbol(coins[i]) = row.symbol
       /\ row.symbol \in DOMAIN txAssets
       /\ txAssets[row.symbol].active
       /\ row.timeframe \in {"1m", "5m", "15m", "1h", "4h", "1d"}
  /\ \A row \in WrittenByRun(dbCandles) :
       /\ pc \in {"close", "done"}
       /\ row.symbol \in DOMAIN dbAssets
       /\ dbAssets[row.symbol].active
       /\ row.timeframe \in {"1m", "5m", "15m", "1h", "4h", "1d"}

\* C16 witness: a run that started on an empty store has committed a candle
\* row next to the asset rows it upserted
C16_Witness ==
  /\ pc = "done"
  /\ DOMAIN startAssets = {}
  /\ WrittenByRun(dbCandles) # {}
  /\ Cardinality(DOMAIN dbAssets) = 2

\* the position of the script: the phase, the index in the loops over coins,
\* and in the import the symbol, the timeframe and the place within the pair
\* (0 the call, k the k-th candle, then the pause)
Position ==
  CASE pc = "idle"      -> <<0, 0, 0, 0, 0>>
    [] pc = "get"       -> <<1, 0, 0, 0, 0>>
    [] pc = "derive"    -> <<2, ci, 0, 0, 0>>
    [] pc = "reconcile" -> <<3, ci, 0, 0, 0>>
    [] pc = "fetch"     -> <<4, 0, si, ti, 0>>
    [] pc = "insert"    -> <<4, 0, si, ti, ki>>
    [] pc = "sleep"     -> <<4, 0, si, ti, MaxCandles + 1>>
    [] pc = "commit"    -> <<5, 0, 0, 0, 0>>
    [] pc = "close"     -> <<6, 0, 0, 0, 0>>
    [] pc = "done"      -> <<7, 0, 0, 0, 0>>
    [] pc = "aborted"   -> <<8, 0, 0, 0, 0>>

\* lexicographic order on positions
Before(a, b) ==
  \E n \in 1..5 : a[n] < b[n] /\ \A m \in 1..(n - 1) : a[m] = b[m]

\* C17: every started run terminates. A run in which nothing raises reaches
\* the completion report with every entry of `symbols` attempted for every
\* timeframe, its writes committed and the connection closed; a run ends early
\* only by a raised exception. Every step of a run moves the script strictly
\* forward, so no loop is repeated, and each position of the import makes one
\* candle call, so no call is retried
C17_RunTerminates ==
  /\ (pc = "get") ~>
       \/ pc = "aborted" /\ failure # "none"
       \/ /\ pc = "done" /\ failure = "none"
          /\ AllPairsAttempted
          /\ dbAssets = txAssets /\ dbCandles = txCandles
  /\ [](pc \in {"fetch", "insert", "sleep"} =>
          Len(fetched) = (si - 1) * Len(timeframes) + (ti - 1)
                           + (IF pc = "fetch" THEN 0 ELSE 1))
  /\ [][ /\ pc' # "get" => Before(Position, Position')
         /\ fetched' # fetched =>
              (pc = "fetch" /\ fetched' = Append(fetched, <<symbols[si], timeframes[ti]>>))
            \/ pc' = "get" ]_vars

\* C17 witness: a run over two assets in which calls came back without
\* candles and with candles has attempted its 24 list entries, committed and
\* reported completion without an exception
C17_Witness ==
  /\ pc = "done"
  /\ failure = "none"
  /\ Len(symbols) = 4
  /\ Len(fetched) = Len(symbols) * Len(timeframes)
  /\ elapsed = Len(fetched) * RateDelayMs
  /\ DOMAIN script.data # {}
  /\ lastStatus = 429
====
